---- MODULE Spec2Model ----
(***************************************************************************)
(* Model of the data-reduction notebooks of RadioAxionSearch:              *)
(*   examples/Load_GBT_Example.ipynb         (GBT, M31 against 3C48)       *)
(*   examples/Load_Effelsberg_Example.ipynb  (Effelsberg L and S band)     *)
(*   an earlier copy of the Effelsberg notebook (unnamed/part_000)         *)
(* Each notebook is a kernel namespace (a record of its global variables)  *)
(* and one action per code cell.  The numeric library calls (numpy,        *)
(* scipy.ndimage) are operators computing what the calls compute.          *)
(*                                                                         *)
(* Numbers.  A float64 is modelled as an exact extended rational           *)
(* [n |-> numerator, d |-> denominator] in lowest terms with d >= 0:       *)
(*   d > 0          a finite value n/d                                     *)
(*   n = 1,  d = 0  +inf                                                   *)
(*   n = -1, d = 0  -inf                                                   *)
(*   n = 0,  d = 0  nan                                                    *)
(* Rounding of the binary representation is not modelled.                  *)
(* numpy arrays are sequences; numpy index j is sequence index j + 1.      *)
(***************************************************************************)
EXTENDS Integers, Sequences, FiniteSets, TLC

VARIABLES
    call,      \* harness: the library/function call under test and its arguments
    ret,       \* harness: what the call returned or raised
    args,      \* harness: the caller's arrays as the call left them
    again,     \* harness: what a second call on the caller's arrays returned or raised
    disk,      \* the observation archives under ../data/ read by the notebooks
    gbt,       \* kernel namespace of Load_GBT_Example.ipynb
    gbt_pc,    \* next cell of the GBT notebook to execute
    notebook,  \* which copy of the Effelsberg notebook the kernel runs
    eff,       \* kernel namespace of the Effelsberg notebook
    eff_pc     \* next cell of the Effelsberg notebook to execute

vars == <<call, ret, args, again, disk, gbt, gbt_pc, notebook, eff, eff_pc>>

callVars == <<call, ret, args, again>>

gbtVars == <<gbt, gbt_pc>>

effVars == <<notebook, eff, eff_pc>>

----------------------------------------------------------------------------
(* float64 arithmetic *)

Abs(x) == IF x < 0 THEN -x ELSE x

Sign(x) == IF x < 0 THEN -1 ELSE IF x > 0 THEN 1 ELSE 0

RECURSIVE GCD(_, _)
GCD(a, b) == IF b = 0 THEN a ELSE GCD(b, a % b)

\* the float with value n/d (d may be 0 or negative), in lowest terms
F(n, d) ==
    IF d = 0 THEN [n |-> Sign(n), d |-> 0]
    ELSE LET g == GCD(Abs(n), Abs(d))
             s == Sign(d)
         IN  [n |-> (s * n) \div g, d |-> (s * d) \div g]

\* a decimal literal of the source, e.g. 1.27 is Dec(127, 100)
Dec(n, d) == F(n, d)

Int2F(n) == [n |-> n, d |-> 1]

nan == [n |-> 0, d |-> 0]

isnan(a) == a.n = 0 /\ a.d = 0

isfinite(a) == a.d > 0

\* a * b
fmul(a, b) == F(a.n * b.n, a.d * b.d)

\* a / b  (x/0 is +-inf, 0/0 is nan, x/inf is 0: no exception is raised)
fdiv(a, b) == F(a.n * b.d * (IF b.n < 0 THEN -1 ELSE 1), a.d * Abs(b.n))

\* a + b
fadd(a, b) ==
    IF a.d = 0 /\ b.d = 0 THEN (IF a.n = b.n THEN a ELSE nan)
    ELSE F(a.n * b.d + b.n * a.d, a.d * b.d)

\* a - b
fsub(a, b) == fadd(a, [n |-> -b.n, d |-> b.d])

\* a <= b  (False whenever an operand is nan)
fle(a, b) ==
    IF isnan(a) \/ isnan(b) THEN FALSE
    ELSE IF a.d = 0 /\ b.d = 0 THEN a.n <= b.n
    ELSE a.n * b.d <= b.n * a.d

\* a >= b
fge(a, b) == fle(b, a)

\* a < b
flt(a, b) == fle(a, b) /\ a # b

----------------------------------------------------------------------------
(* outcome of a call or of a cell: a value, or the exception raised *)

Ok(v) == [exc |-> "", val |-> v]

Raise(e) == [exc |-> e, val |-> <<>>]

----------------------------------------------------------------------------
(* python / numpy primitives *)

\* python 2 integer division a / b for ints (floor), b # 0
PyFloorDiv(a, b) == IF b > 0 THEN a \div b ELSE (-a) \div (-b)

\* arr[:stop] with python's slice clamping
PySliceTo(arr, stop) ==
    LET n == Len(arr)
        e == IF stop < 0 THEN (IF n + stop < 0 THEN 0 ELSE n + stop)
             ELSE IF stop > n THEN n ELSE stop
    IN  SubSeq(arr, 1, e)

RECURSIVE fsum(_)
fsum(s) == IF s = <<>> THEN Int2F(0) ELSE fadd(s[1], fsum(Tail(s)))

\* whether a.reshape(rows, cols) succeeds for a 1-d array of `size` elements.
\* A negative dimension is the unknown dimension, to be inferred from the
\* size: at most one is allowed, and it cannot be inferred when the other
\* dimension is 0 or does not divide the size.
ReshapeOK(size, rows, cols) ==
    IF rows >= 0 /\ cols >= 0 THEN rows * cols = size
    ELSE IF rows < 0 /\ cols < 0 THEN FALSE
    ELSE LET known == IF rows < 0 THEN cols ELSE rows
         IN  known # 0 /\ size % known = 0

\* a.reshape(rows, cols): C order, row r holds elements r*cols .. r*cols+cols-1
reshape(arr, rows, cols) ==
    LET nrows == IF rows < 0 THEN Len(arr) \div cols ELSE rows
        ncols == IF cols < 0 THEN Len(arr) \div rows ELSE cols
    IN  [r \in 1..nrows |-> [c \in 1..ncols |-> arr[(r - 1) * ncols + c]]]

\* the sum of each row in place of its mean
mean_axis1_Sum(m) ==
    [r \in 1..Len(m) |-> fsum(m[r])]

\* np.mean(m, axis = 1): the mean of each row, an empty array for no rows
mean_axis1(m) ==
    [r \in 1..Len(m) |-> fdiv(fsum(m[r]), Int2F(Len(m[r])))]

----------------------------------------------------------------------------
(* downbin, cell 2 of the Effelsberg notebook (python 2 kernel) *)

\* downbin with the two reshape dimensions exchanged
downbin_Transposed(arr, downsample, shift) ==
    IF downsample = 0 THEN Raise("ZeroDivisionError")
    ELSE LET num_intervals == PyFloorDiv(Len(arr), downsample)
             head          == PySliceTo(arr, num_intervals * downsample)
         IN  IF ~ReshapeOK(Len(head), downsample, num_intervals)
             THEN Raise("ValueError")
             ELSE Ok(mean_axis1(reshape(head, downsample, num_intervals)))

\* downbin starting its first block at index shift
downbin_Shifted(arr, downsample, shift) ==
    IF downsample = 0 THEN Raise("ZeroDivisionError")
    ELSE LET n             == Len(arr)
             start         == IF shift < 0 THEN (IF n + shift < 0 THEN 0 ELSE n + shift)
                              ELSE IF shift > n THEN n ELSE shift
             copy          == SubSeq(arr, start + 1, n)
             num_intervals == PyFloorDiv(Len(copy), downsample)
             head          == PySliceTo(copy, num_intervals * downsample)
         IN  IF ~ReshapeOK(Len(head), num_intervals, downsample)
             THEN Raise("ValueError")
             ELSE Ok(mean_axis1(reshape(head, num_intervals, downsample)))

\* downbin taking the magnitude of the factor
downbin_AbsFactor(arr, downsample, shift) ==
    IF downsample = 0 THEN Raise("ZeroDivisionError")
    ELSE LET k             == Abs(downsample)
             num_intervals == PyFloorDiv(Len(arr), k)
             head          == PySliceTo(arr, num_intervals * k)
         IN  Ok(mean_axis1(reshape(head, num_intervals, k)))

\* downbin that also emits the mean of the trailing partial block
downbin_PartialBlock(arr, downsample, shift) ==
    IF downsample = 0 THEN Raise("ZeroDivisionError")
    ELSE LET num_intervals == PyFloorDiv(Len(arr), downsample)
             max_index     == num_intervals * downsample
             head          == PySliceTo(arr, max_index)
             rest          == SubSeq(arr, max_index + 1, Len(arr))
         IN  IF ~ReshapeOK(Len(head), num_intervals, downsample)
             THEN Raise("ValueError")
             ELSE Ok(mean_axis1(reshape(head, num_intervals, downsample)
                                \o (IF rest = <<>> THEN <<>> ELSE <<rest>>)))

\* downbin that refuses an array shorter than one block
downbin_Strict(arr, downsample, shift) ==
    IF downsample = 0 THEN Raise("ZeroDivisionError")
    ELSE LET num_intervals == PyFloorDiv(Len(arr), downsample)
             head          == PySliceTo(arr, num_intervals * downsample)
         IN  IF num_intervals = 0 \/ ~ReshapeOK(Len(head), num_intervals, downsample)
             THEN Raise("ValueError")
             ELSE Ok(mean_axis1(reshape(head, num_intervals, downsample)))

downbin(arr, downsample, shift) ==
    IF downsample = 0 THEN Raise("ZeroDivisionError")
    ELSE LET copy          == arr
             max_index     == PyFloorDiv(Len(copy), downsample) * downsample
             num_intervals == PyFloorDiv(Len(copy), downsample)
             head          == PySliceTo(copy, max_index)
         IN  IF ~ReshapeOK(Len(head), num_intervals, downsample)
             THEN Raise("ValueError")
             ELSE Ok(mean_axis1(reshape(head, num_intervals, downsample)))

\* the caller's array with the block means written over its first samples
downbin_args_InPlace(arr, downsample, shift) ==
    LET out == downbin(arr, downsample, shift)
    IN  [arr |-> IF out.exc # "" THEN arr
                 ELSE out.val \o SubSeq(arr, Len(out.val) + 1, Len(arr)),
         aux |-> <<>>]

\* the caller's array after downbin(arr, ...): arr = np.copy(arr[0:]) binds
\* the local name to a copy, and nothing is written to either array
downbin_args(arr, downsample, shift) == [arr |-> arr, aux |-> <<>>]

----------------------------------------------------------------------------
(* numpy array primitives used by the cells *)

\* where_from with the lower end of the range excluded
RECURSIVE where_from_OpenLower(_, _, _, _)
where_from_OpenLower(freqs, lower, upper, i) ==
    IF i > Len(freqs) THEN <<>>
    ELSE IF flt(lower, freqs[i]) /\ fle(freqs[i], upper)
         THEN <<i>> \o where_from_OpenLower(freqs, lower, upper, i + 1)
         ELSE where_from_OpenLower(freqs, lower, upper, i + 1)

RECURSIVE where_from(_, _, _, _)
where_from(freqs, lower, upper, i) ==
    IF i > Len(freqs) THEN <<>>
    ELSE IF fge(freqs[i], lower) /\ fle(freqs[i], upper)
         THEN <<i>> \o where_from(freqs, lower, upper, i + 1)
         ELSE where_from(freqs, lower, upper, i + 1)

\* np.where(np.logical_and(freqs >= lower, freqs <= upper)): the ascending
\* index array of the channels in [lower, upper]
where_range(freqs, lower, upper) == where_from(freqs, lower, upper, 1)

\* arr[locs] refusing an empty index array
take_RejectEmpty(arr, locs) ==
    IF locs = <<>> \/ \E j \in 1..Len(locs) : locs[j] > Len(arr) THEN Raise("IndexError")
    ELSE Ok([j \in 1..Len(locs) |-> arr[locs[j]]])

\* arr[locs] for an index array locs: a new array, or IndexError
take(arr, locs) ==
    IF \E j \in 1..Len(locs) : locs[j] > Len(arr) THEN Raise("IndexError")
    ELSE Ok([j \in 1..Len(locs) |-> arr[locs[j]]])

\* shape of the broadcast of two 1-d arrays, -1 when they do not broadcast
BroadcastLen(la, lb) ==
    IF la = lb THEN la
    ELSE IF la = 1 THEN lb
    ELSE IF lb = 1 THEN la
    ELSE -1

\* element i of a 1-d array broadcast to a longer shape
BAt(a, i) == IF Len(a) = 1 THEN a[1] ELSE a[i]

\* a * b for 1-d arrays
amul(a, b) ==
    LET n == BroadcastLen(Len(a), Len(b))
    IN  IF n < 0 THEN Raise("ValueError")
        ELSE Ok([i \in 1..n |-> fmul(BAt(a, i), BAt(b, i))])

\* a / b with b taken from its far end
adiv_Reversed(a, b) ==
    LET n == BroadcastLen(Len(a), Len(b))
    IN  IF n < 0 THEN Raise("ValueError")
        ELSE Ok([i \in 1..n |-> fdiv(BAt(a, i), BAt(b, Len(b) + 1 - i))])

\* a / b for 1-d arrays
adiv(a, b) ==
    LET n == BroadcastLen(Len(a), Len(b))
    IN  IF n < 0 THEN Raise("ValueError")
        ELSE Ok([i \in 1..n |-> fdiv(BAt(a, i), BAt(b, i))])

----------------------------------------------------------------------------
(* scipy.ndimage.median_filter(input, size = size): mode and origin are *)
(* left at their defaults, mode = 'reflect' and origin = 0              *)

\* 'reflect' extension (d c b a | a b c d | d c b a): the sample index
\* (1-based) read at 0-based position p of an array of n >= 1 samples
ReflectIndex(p, n) ==
    LET j == p % (2 * n)
    IN  IF j < n THEN j + 1 ELSE 2 * n - j

\* how many positions p in a..b have p % M = r, for 0 <= r < M
CountCongruent(a, b, r, M) == ((b - r) \div M) - ((a - 1 - r) \div M)

\* how many of the `size` window positions around 0-based position i read
\* sample m of an array of n samples: by ReflectIndex these are the
\* positions p with p % 2n = m - 1 or p % 2n = 2n - m
Reads(n, size, i, m) ==
    LET a == i - (size \div 2)
        b == a + size - 1
    IN  CountCongruent(a, b, m - 1, 2 * n) + CountCongruent(a, b, 2 * n - m, 2 * n)

\* the reads of the samples m..n, in order
ReadsFrom(n, size, i, m) ==
    [k \in 1..(n - m + 1) |-> Reads(n, size, i, m + k - 1)]

\* the reads of the samples lo..hi that are in S, summed by halves
RECURSIVE TotalIn(_, _, _, _)
TotalIn(reads, S, lo, hi) ==
    IF lo > hi THEN 0
    ELSE IF lo = hi THEN (IF lo \in S THEN reads[lo] ELSE 0)
    ELSE LET mid == (lo + hi) \div 2
         IN  TotalIn(reads, S, lo, mid) + TotalIn(reads, S, mid + 1, hi)

\* the reads of the samples in S
Total(reads, S) == TotalIn(reads, S, 1, Len(reads))

\* element of rank r (0-based) of the sorted window that holds sample m of
\* input reads[m] times
RankByReads(input, reads, r) ==
    CHOOSE v \in {input[m] : m \in 1..Len(input)} :
        /\ Total(reads, {m \in 1..Len(input) : flt(input[m], v)}) <= r
        /\ Total(reads, {m \in 1..Len(input) : fle(input[m], v)}) >= r + 1

\* element of rank r (0-based) of a sorted window given sample by sample
RankOf(w, r) ==
    CHOOSE v \in {w[q] : q \in 1..Len(w)} :
        /\ Cardinality({q \in 1..Len(w) : flt(w[q], v)}) <= r
        /\ Cardinality({q \in 1..Len(w) : fle(w[q], v)}) >= r + 1

\* the minimum filter: rank 0 of the window in place of its median
median_filter_Minimum(input, size) ==
    [i \in 1..Len(input) |->
        RankByReads(input, ReadsFrom(Len(input), size, i - 1, 1), 0)]

\* the window under mode = 'nearest': positions outside the array read the
\* nearest boundary sample
NearestWindow(input, size, i) ==
    [q \in 1..size |->
        LET p == i - (size \div 2) + (q - 1)
        IN  input[IF p < 0 THEN 1 ELSE IF p >= Len(input) THEN Len(input) ELSE p + 1]]

\* median_filter called with mode = 'nearest'
median_filter_Nearest(input, size) ==
    [i \in 1..Len(input) |-> RankOf(NearestWindow(input, size, i - 1), size \div 2)]

median_filter(input, size) ==
    [i \in 1..Len(input) |->
        RankByReads(input, ReadsFrom(Len(input), size, i - 1, 1), size \div 2)]

----------------------------------------------------------------------------
(* np.interp(x, xp, fp) for an increasing table xp, as compiled in the    *)
(* numpy releases that run under the notebooks' python 2 kernel          *)

\* number of table points <= x, i.e. the 1-based index of the last one
LastLE(x, xp) == Cardinality({j \in 1..Len(xp) : fle(xp[j], x)})

\* interp1 continuing the first and the last segment beyond the table
interp1_Extrapolating(x, xp, fp) ==
    LET n == Len(xp)
        k == LastLE(x, xp)
        j == IF n = 1 THEN 0 ELSE IF k = 0 THEN 1 ELSE IF k = n THEN n - 1 ELSE k
    IN  IF isnan(x) THEN x
        ELSE IF j = 0 THEN fp[1]
        ELSE LET slope == fdiv(fsub(fp[j + 1], fp[j]), fsub(xp[j + 1], xp[j]))
             IN  fadd(fmul(slope, fsub(x, xp[j])), fp[j])

interp1(x, xp, fp) ==
    LET n == Len(xp)
        j == LastLE(x, xp)
    IN  IF isnan(x) THEN x
        ELSE IF j = 0 THEN fp[1]
        ELSE IF j = n THEN fp[n]
        ELSE LET slope == fdiv(fsub(fp[j + 1], fp[j]), fsub(xp[j + 1], xp[j]))
             IN  fadd(fmul(slope, fsub(x, xp[j])), fp[j])

interp(x, xp, fp) ==
    IF Len(xp) = 0 \/ Len(xp) # Len(fp) THEN Raise("ValueError")
    ELSE Ok([i \in 1..Len(x) |-> interp1(x[i], xp, fp)])

----------------------------------------------------------------------------
(* the two array idioms of the 'Reduce the Data' cells *)

\* locs = np.where(...); arr = arr[locs]
restrict(freqs, arr, lower, upper) == take(arr, where_range(freqs, lower, upper))

\* mask_of with the upper end of the blanked range excluded
mask_of_OpenUpper(freqs, mlo, mhi) ==
    [i \in 1..Len(freqs) |->
        IF fge(freqs[i], mlo) /\ flt(freqs[i], mhi) THEN nan ELSE Int2F(1)]

\* a mask holding only the channels outside the blanked range
mask_of_Dropping(freqs, mlo, mhi) ==
    SelectSeq([i \in 1..Len(freqs) |->
                  IF fge(freqs[i], mlo) /\ fle(freqs[i], mhi) THEN nan ELSE Int2F(1)],
              LAMBDA m : ~isnan(m))

\* mask_locs = np.where(...); mask = np.ones_like(freqs); mask[mask_locs] = np.nan
mask_of(freqs, mlo, mhi) ==
    LET mask_locs == where_range(freqs, mlo, mhi)
        ones      == [i \in 1..Len(freqs) |-> Int2F(1)]
    IN  [i \in 1..Len(freqs) |->
            IF \E j \in 1..Len(mask_locs) : mask_locs[j] = i THEN nan ELSE ones[i]]

\* the arrays after locs = np.where(...); arr[locs]: the comparisons and the
\* indexing by an index array make new arrays and write to neither operand
restrict_args(freqs, arr, lower, upper) == [arr |-> freqs, aux |-> arr]

\* the frequencies after a mask built on the frequency array itself
\* (mask = freqs in place of np.ones_like(freqs))
mask_of_args_Aliased(freqs, mlo, mhi) ==
    [arr |-> [i \in 1..Len(freqs) |->
                 IF fge(freqs[i], mlo) /\ fle(freqs[i], mhi) THEN nan ELSE freqs[i]],
     aux |-> <<>>]

\* the frequencies after the three mask statements: np.ones_like allocates
\* the mask and mask[mask_locs] = np.nan writes into the mask only
mask_of_args(freqs, mlo, mhi) == [arr |-> freqs, aux |-> <<>>]

----------------------------------------------------------------------------
(* statements of a cell, acting on the kernel namespace ns *)

\* name = value, where value is the outcome of an expression: the
\* statement is skipped once an exception is pending, and an exception of
\* the expression becomes pending and leaves name as it was
Assign(ns, name, outcome) ==
    IF ns.exc # "" THEN ns
    ELSE IF outcome.exc # "" THEN [ns EXCEPT !.exc = outcome.exc]
    ELSE [ns EXCEPT ![name] = outcome.val]

\* the index array computed on the first execution only and reused afterwards
Stmt_Where_Once(ns, locs, freqs, lower, upper) ==
    IF ns[locs] # <<>> THEN ns
    ELSE Assign(ns, locs, Ok(where_range(ns[freqs], lower, upper)))

\* locs = np.where(np.logical_and(freqs >= lower, freqs <= upper))
Stmt_Where(ns, locs, freqs, lower, upper) ==
    Assign(ns, locs, Ok(where_range(ns[freqs], lower, upper)))

\* plt.plot(x, y): the line drawn, or ValueError when x and y differ in length
plot(x, y) ==
    IF y.exc # "" THEN y
    ELSE IF Len(x) # Len(y.val) THEN Raise("ValueError")
    ELSE y

\* plt.plot(freqs, cal * on_data): the line's points are kept as line_x, line_y
Stmt_Plot(ns, line_x, line_y, freqs, cal, on_data) ==
    Assign(Assign(ns, line_y, plot(ns[freqs], amul(ns[cal], ns[on_data]))), line_x, Ok(ns[freqs]))

----------------------------------------------------------------------------
(* Calls of the pure operations on bounded inputs *)

MaxN == 5            \* longest array handed to downbin
MaxFactor == 3       \* largest downsample factor tried
MaxNegFactor == 2    \* factors down to -MaxNegFactor are tried
MaxMaskLen == 3      \* longest frequency array handed to restrict / mask_of
MaxMedLen == 4       \* longest array handed to median_filter

SeqsUpTo(S, n) == UNION {[1..m -> S] : m \in 0..n}

Samples == {Int2F(0), Int2F(1), Int2F(4)}

FreqSamples == {Dec(10, 10), Dec(12, 10), Dec(125, 100), Dec(13, 10), Dec(14, 10)}

\* the arrays of the scenarios of the documentation
Scenario_Downbin == [i \in 1..7 |-> Int2F(i)]

Scenario_Restrict == <<Dec(10, 10), Dec(11, 10), Dec(12, 10), Dec(13, 10), Dec(14, 10)>>

Scenario_Mask == <<Dec(10, 10), Dec(12, 10), Dec(125, 100), Dec(13, 10), Dec(14, 10)>>

GBT_size == 31       \* median_filter(Cal_AntennaTemp, size = 31)

Eff_size == 201      \* median_filter(LBand_On_Data, size = 201)

SmallSizes == {3, 5}

\* index tags 1, 2, ... for an array co-indexed with n channels
Tags(n) == [i \in 1..n |-> Int2F(i)]

NoCall == [fn |-> "", arr |-> <<>>, aux |-> <<>>, lo |-> nan, hi |-> nan, k |-> 0, shift |-> 0]

Pending == [exc |-> "pending", val |-> <<>>]

NoArgs == [arr |-> <<>>, aux |-> <<>>]

DownbinCalls ==
    {[NoCall EXCEPT !.fn = "downbin", !.arr = a, !.k = k, !.shift = s] :
        a \in SeqsUpTo(Samples, MaxN) \cup {Scenario_Downbin},
        k \in (0 - MaxNegFactor)..MaxFactor,
        s \in {0, 1}}

RestrictCalls ==
    {[NoCall EXCEPT !.fn = "restrict", !.arr = f,
                    !.aux = IF short = 0 THEN f ELSE Tags(Len(f) - 1),
                    !.lo = lo, !.hi = hi] :
        f \in SeqsUpTo(FreqSamples, MaxMaskLen) \cup {Scenario_Restrict},
        short \in {0, 1},
        lo \in {Dec(11, 10), Dec(12, 10)},
        hi \in {Dec(13, 10), Dec(10, 10)}}

MaskCalls ==
    {[NoCall EXCEPT !.fn = "mask_of", !.arr = f, !.lo = lo, !.hi = hi] :
        f \in SeqsUpTo(FreqSamples, MaxMaskLen) \cup {Scenario_Mask},
        lo \in FreqSamples, hi \in FreqSamples}

MedianCalls ==
    {[NoCall EXCEPT !.fn = "median_filter", !.arr = a, !.k = w] :
        a \in SeqsUpTo(Samples, MaxMedLen),
        w \in SmallSizes \cup {GBT_size, Eff_size}}

CallDownbin ==
    /\ call.fn = "downbin" /\ ret = Pending
    /\ ret' = downbin(call.arr, call.k, call.shift)
    /\ args' = downbin_args(call.arr, call.k, call.shift)
    /\ UNCHANGED <<call, again, disk, gbtVars, effVars>>

\* the co-indexed array aux restricted by the frequencies arr
CallRestrict ==
    /\ call.fn = "restrict" /\ ret = Pending
    /\ ret' = restrict(call.arr, call.aux, call.lo, call.hi)
    /\ args' = restrict_args(call.arr, call.aux, call.lo, call.hi)
    /\ UNCHANGED <<call, again, disk, gbtVars, effVars>>

CallMask ==
    /\ call.fn = "mask_of" /\ ret = Pending
    /\ ret' = Ok(mask_of(call.arr, call.lo, call.hi))
    /\ args' = mask_of_args(call.arr, call.lo, call.hi)
    /\ UNCHANGED <<call, again, disk, gbtVars, effVars>>

CallMedian ==
    /\ call.fn = "median_filter" /\ ret = Pending
    /\ ret' = Ok(median_filter(call.arr, call.k))
    /\ UNCHANGED <<call, args, again, disk, gbtVars, effVars>>

Idle == <<>>

InitCallsOf(calls) ==
    /\ call \in calls
    /\ ret = Pending
    /\ args = [arr |-> call.arr, aux |-> call.aux]
    /\ again = Pending
    /\ disk = Idle /\ gbt = Idle /\ gbt_pc = "off"
    /\ notebook = "" /\ eff = Idle /\ eff_pc = "off"

InitCalls == InitCallsOf(DownbinCalls \cup RestrictCalls \cup MaskCalls \cup MedianCalls)

NextCalls == CallDownbin \/ CallRestrict \/ CallMask \/ CallMedian

SpecCalls == InitCalls /\ [][NextCalls]_vars

----------------------------------------------------------------------------
(* Load_GBT_Example.ipynb *)

MaxChan == 3         \* most channels of the M31 observation
MaxCalChan == 2      \* most channels of the 3C48_mode2 observation

\* strictly increasing frequency axes of at most n channels over S
IncSeqs(S, n) ==
    {f \in SeqsUpTo(S, n) : \A i \in 1..Len(f) : \A j \in 1..Len(f) : i < j => flt(f[i], f[j])}

GBT_Lower  == Dec(115, 100)    \* M31_Freqs >= 1.15
GBT_Upper  == Dec(173, 100)    \* M31_Freqs <= 1.73
GBT_MaskLo == Dec(12, 10)      \* M31_Freqs >= 1.2
GBT_MaskHi == Dec(134, 100)    \* M31_Freqs <= 1.34

\* the ranges named by the markdown cell 'Reduce the Data'
GBT_DocLower  == Dec(115, 100)
GBT_DocUpper  == Dec(173, 100)
GBT_DocMaskLo == Dec(12, 10)
GBT_DocMaskHi == Dec(135, 100)

GBT_M31_FreqSet ==
    {Dec(114, 100), Dec(115, 100), Dec(12, 10), Dec(134, 100), Dec(135, 100),
     Dec(173, 100), Dec(174, 100)}

GBT_Cal_FreqSet == {Dec(115, 100), Dec(12, 10), Dec(173, 100)}

GBT_TempSet == {Int2F(0), Int2F(2)}

\* one observation archive: six co-indexed arrays (frequency, antenna
\* temperature, ON counts, OFF counts, ON acceptance, OFF acceptance)
Observation(freqs, temp) ==
    LET n == Len(freqs)
    IN  <<freqs, temp,
          [i \in 1..n |-> Int2F(100 + i)], [i \in 1..n |-> Int2F(200 + i)],
          [i \in 1..n |-> F(i, i + 1)], [i \in 1..n |-> F(1, i)]>>

\* antenna temperatures of the target: flat, or with every other channel at zero
GBT_M31_Temps(kind, n) ==
    [i \in 1..n |-> IF kind = "flat" \/ i % 2 = 0 THEN Int2F(2) ELSE Int2F(0)]

GBT_Archives ==
    {[M31 |-> Observation(mf, GBT_M31_Temps(kind, Len(mf))), Cal |-> Observation(cf, ct)] :
        mf \in IncSeqs(GBT_M31_FreqSet, MaxChan),
        kind \in {"flat", "gaps"},
        <<cf, ct>> \in {<<f, t>> \in IncSeqs(GBT_Cal_FreqSet, MaxCalChan) \X SeqsUpTo(GBT_TempSet, MaxCalChan)
                            : Len(f) = Len(t)}}

\* load.load(directory, target, downsample = 1, do_shift = False): the six
\* arrays of the target's archive at full resolution
load(archives, target) == archives[target]

\* load.get_expected(freqs, '3C48'): the expected flux density of the
\* calibration source at each frequency, a positive decreasing function
get_expected(freqs) ==
    [i \in 1..Len(freqs) |-> fsub(Int2F(30), fmul(Int2F(10), freqs[i]))]

GBT_Names ==
    {"M31_Data", "M31_Freqs", "M31_AntennaTemp", "M31_Sig", "M31_Ref", "M31_SigAccept",
     "M31_RefAccept", "Cal_Data", "Cal_Freqs", "Cal_AntennaTemp", "Cal_Func",
     "locs", "item", "mask_locs", "mask", "line_x", "line_y"}

\* the fresh kernel: nothing bound, no exception
GBT_Fresh == [v \in GBT_Names \cup {"exc"} |-> IF v = "exc" THEN "" ELSE <<>>]

\* a cell ends: on to the next cell, or the run stops at the exception
GBT_Goto(ns, next) == IF ns.exc = "" THEN next ELSE "error"

\* In [2]
GBT_LoadCell(ns, archives) ==
    LET M31_Data == load(archives, "M31")
    IN  [ns EXCEPT !.M31_Data = M31_Data,
                   !.M31_Freqs = M31_Data[1],
                   !.M31_AntennaTemp = M31_Data[2],
                   !.M31_Sig = M31_Data[3],
                   !.M31_Ref = M31_Data[4],
                   !.M31_SigAccept = M31_Data[5],
                   !.M31_RefAccept = M31_Data[6]]

\* load.get_expected(freqs, '3C48') / ndimage.median_filter(temp, size = 31)
GBT_CalOf(freqs, temp) == adiv(get_expected(freqs), median_filter(temp, GBT_size))

\* Cal_Func = load.get_expected(Cal_Freqs, '3C48') / ndimage.median_filter(Cal_AntennaTemp, size = 31)
Stmt_CalFunc(ns) ==
    Assign(ns, "Cal_Func", GBT_CalOf(ns.Cal_Freqs, ns.Cal_AntennaTemp))

\* In [3]
GBT_CalibrateCell(ns, archives) ==
    LET s1 == Assign(ns, "Cal_Data", Ok(load(archives, "Cal")))
        s2 == Assign(s1, "Cal_Freqs", Ok(s1.Cal_Data[1]))
        s3 == Assign(s2, "Cal_AntennaTemp", Ok(s2.Cal_Data[2]))
        s4 == Stmt_CalFunc(s3)
    IN  s4

\* for item in items: item = item[locs]
\* the loop variable is rebound at each turn; the arrays named in the list
\* keep their values
RECURSIVE GBT_ItemLoop(_, _)
GBT_ItemLoop(ns, items) ==
    IF items = <<>> \/ ns.exc # "" THEN ns
    ELSE GBT_ItemLoop(Assign(ns, "item", take(ns[Head(items)], ns.locs)), Tail(items))

\* mask_locs = np.where(...); mask = np.ones_like(M31_Freqs); mask[mask_locs] = np.nan
Stmt_Mask(ns) ==
    Assign(Stmt_Where(ns, "mask_locs", "M31_Freqs", GBT_MaskLo, GBT_MaskHi),
           "mask", Ok(mask_of(ns.M31_Freqs, GBT_MaskLo, GBT_MaskHi)))

\* In [4]
GBT_ReduceCell(ns) ==
    LET s1 == Stmt_Where(ns, "locs", "M31_Freqs", GBT_Lower, GBT_Upper)
        s2 == GBT_ItemLoop(s1, <<"M31_Freqs", "M31_AntennaTemp", "M31_Sig", "M31_Ref",
                                 "M31_SigAccept", "M31_RefAccept", "Cal_Func">>)
        s3 == Stmt_Mask(s2)
    IN  s3

\* the product mask * inner, where inner is the outcome of the inner product
Masked(mask, inner) == IF inner.exc # "" THEN inner ELSE amul(mask, inner.val)

\* the plotted product without the mask
GBT_PlotCell_NoMask(ns) ==
    Stmt_Plot(ns, "line_x", "line_y", "M31_Freqs", "Cal_Func", "M31_AntennaTemp")

\* the plotted product with Cal_Func interpolated from Cal_Freqs onto M31_Freqs
GBT_PlotCell_Resampling(ns) ==
    LET y == plot(ns.M31_Freqs,
                  Masked(ns.mask, amul([i \in 1..Len(ns.M31_Freqs) |->
                                           interp1(ns.M31_Freqs[i], ns.Cal_Freqs, ns.Cal_Func)],
                                       ns.M31_AntennaTemp)))
    IN  Assign(Assign(ns, "line_y", y), "line_x", Ok(ns.M31_Freqs))

\* In [5]: plt.plot(M31_Freqs, mask*(Cal_Func * M31_AntennaTemp))
GBT_PlotCell(ns) ==
    LET y == plot(ns.M31_Freqs, Masked(ns.mask, amul(ns.Cal_Func, ns.M31_AntennaTemp)))
    IN  Assign(Assign(ns, "line_y", y), "line_x", Ok(ns.M31_Freqs))

GBT_Load ==
    /\ gbt_pc = "load"
    /\ gbt' = GBT_LoadCell(gbt, disk)
    /\ gbt_pc' = GBT_Goto(gbt', "calibrate")
    /\ UNCHANGED <<callVars, disk, effVars>>

GBT_Calibrate ==
    /\ gbt_pc = "calibrate"
    /\ gbt' = GBT_CalibrateCell(gbt, disk)
    /\ gbt_pc' = GBT_Goto(gbt', "reduce")
    /\ UNCHANGED <<callVars, disk, effVars>>

GBT_Reduce ==
    /\ gbt_pc = "reduce"
    /\ gbt' = GBT_ReduceCell(gbt)
    /\ gbt_pc' = GBT_Goto(gbt', "plot")
    /\ UNCHANGED <<callVars, disk, effVars>>

GBT_Plot ==
    /\ gbt_pc = "plot"
    /\ gbt' = GBT_PlotCell(gbt)
    /\ gbt_pc' = GBT_Goto(gbt', "done")
    /\ UNCHANGED <<callVars, disk, effVars>>

InitGBT ==
    /\ disk \in GBT_Archives
    /\ gbt = GBT_Fresh
    /\ gbt_pc = "load"
    /\ call = NoCall /\ ret = Pending /\ args = NoArgs /\ again = Pending
    /\ notebook = "" /\ eff = Idle /\ eff_pc = "off"

NextGBT == GBT_Load \/ GBT_Calibrate \/ GBT_Reduce \/ GBT_Plot

SpecGBT == InitGBT /\ [][NextGBT]_vars

----------------------------------------------------------------------------
(* Claims about the GBT notebook, checked under SpecGBT *)

GBT_Reduced == gbt_pc \in {"plot", "done"}

InRange(f, lower, upper) == fge(f, lower) /\ fle(f, upper)

\* C1: once the 'Reduce the Data' cell has run, every element of M31_Freqs
\* lies in [1.15, 1.73] and M31_AntennaTemp, M31_Sig, M31_Ref, M31_SigAccept,
\* M31_RefAccept and Cal_Func carry the same index subset, so that no channel
\* outside the range reaches the plotted line.
C1_ReducedToBand ==
    GBT_Reduced =>
        /\ \A i \in 1..Len(gbt.M31_Freqs) :
              InRange(gbt.M31_Freqs[i], GBT_DocLower, GBT_DocUpper)
        /\ \A v \in {"M31_AntennaTemp", "M31_Sig", "M31_Ref", "M31_SigAccept", "M31_RefAccept"} :
              Len(gbt[v]) = Len(gbt.locs)
        /\ Len(disk.Cal[1]) = Len(disk.M31[1]) => Len(gbt.Cal_Func) = Len(gbt.locs)
        /\ \A i \in 1..Len(gbt.line_x) :
              InRange(gbt.line_x[i], GBT_DocLower, GBT_DocUpper)

\* C5: every channel whose frequency lies in the documented notch-filter
\* range 1.2 - 1.35 GHz is missing in the mask and in the plotted flux density.
C5_NotchBlanked ==
    GBT_Reduced =>
        /\ \A i \in 1..Len(gbt.mask) :
              InRange(gbt.M31_Freqs[i], GBT_DocMaskLo, GBT_DocMaskHi) => isnan(gbt.mask[i])
        /\ \A i \in 1..Len(gbt.line_y) :
              InRange(gbt.line_x[i], GBT_DocMaskLo, GBT_DocMaskHi) => isnan(gbt.line_y[i])

\* C7: in the plotted array mask*(Cal_Func*M31_AntennaTemp), a channel inside
\* the blanked range is missing and a channel outside it carries the product
\* Cal_Func*M31_AntennaTemp of the same index; no channel is removed, so every
\* channel keeps its index.
C7_MaskedProduct ==
    gbt_pc = "done" =>
        LET product == amul(gbt.Cal_Func, gbt.M31_AntennaTemp).val
        IN  /\ Len(gbt.line_y) = Len(product)
            /\ Len(gbt.line_y) = Len(gbt.M31_Freqs)
            /\ \A i \in 1..Len(gbt.line_y) :
                  IF InRange(gbt.M31_Freqs[i], GBT_MaskLo, GBT_MaskHi)
                  THEN isnan(gbt.line_y[i])
                  ELSE gbt.line_y[i] = product[i]

\* a plotted line with a blanked channel before a channel that carries a
\* finite non-zero flux density
C7_Witness ==
    /\ gbt_pc = "done"
    /\ \E i \in 1..Len(gbt.line_y) : \E j \in 1..Len(gbt.line_y) :
          /\ i < j
          /\ InRange(gbt.M31_Freqs[i], GBT_MaskLo, GBT_MaskHi) /\ isnan(gbt.line_y[i])
          /\ ~InRange(gbt.M31_Freqs[j], GBT_MaskLo, GBT_MaskHi)
          /\ isfinite(gbt.line_y[j]) /\ gbt.line_y[j].n # 0

\* Cal_Func brought onto the grid of M31_Freqs by linear interpolation
Resampled(ns) == [i \in 1..Len(ns.M31_Freqs) |-> interp1(ns.M31_Freqs[i], ns.Cal_Freqs, ns.Cal_Func)]

\* C8 as stated: the plotted product uses Cal_Func resampled by linear
\* interpolation from Cal_Freqs onto M31_Freqs (read here for a finite Cal_Func).
C8_Resampled ==
    (gbt_pc = "done" /\ \A i \in 1..Len(gbt.Cal_Func) : isfinite(gbt.Cal_Func[i])) =>
        \A i \in 1..Len(gbt.line_y) :
            gbt.line_y[i] = fmul(gbt.mask[i], fmul(Resampled(gbt)[i], gbt.M31_AntennaTemp[i]))

\* C8 amended: Cal_Func is never resampled; the product takes Cal_Func at
\* the same index as the M31 channel (a one-channel Cal_Func is broadcast),
\* whatever Cal_Freqs and M31_Freqs are.  On identical grids with a finite
\* Cal_Func this is the interpolated calibration.
C8_IndexWise ==
    gbt_pc = "done" =>
        /\ \A i \in 1..Len(gbt.line_y) :
              gbt.line_y[i] = fmul(gbt.mask[i], fmul(BAt(gbt.Cal_Func, i), gbt.M31_AntennaTemp[i]))
        /\ (gbt.Cal_Freqs = gbt.M31_Freqs /\ \A i \in 1..Len(gbt.Cal_Func) : isfinite(gbt.Cal_Func[i]))
              => \A i \in 1..Len(gbt.line_y) :
                    gbt.line_y[i] = fmul(gbt.mask[i], fmul(Resampled(gbt)[i], gbt.M31_AntennaTemp[i]))

\* the two observations have as many channels on different grids, and a
\* plotted channel differs from what the interpolated calibration would give
C8_Witness ==
    /\ gbt_pc = "done"
    /\ Len(gbt.Cal_Freqs) = Len(gbt.M31_Freqs)
    /\ gbt.Cal_Freqs # gbt.M31_Freqs
    /\ \E i \in 1..Len(gbt.line_y) :
          /\ isfinite(gbt.line_y[i])
          /\ gbt.line_y[i] # fmul(gbt.mask[i], fmul(Resampled(gbt)[i], gbt.M31_AntennaTemp[i]))

----------------------------------------------------------------------------
(* Claims about the pure operations, checked under SpecCalls *)

Returned(fn) == call.fn = fn /\ ret # Pending

\* C2: for N samples and a factor k >= 1, downbin returns floor(N/k) values,
\* and output j is the arithmetic mean of the k contiguous inputs at positions
\* j*k .. j*k+k-1, in order.
C2_BlockMeans ==
    (Returned("downbin") /\ call.k >= 1) =>
        /\ ret.exc = ""
        /\ Len(ret.val) = Len(call.arr) \div call.k
        /\ \A j \in 0..(Len(ret.val) - 1) :
              fmul(ret.val[j + 1], Int2F(call.k))
                  = fsum(SubSeq(call.arr, j * call.k + 1, j * call.k + call.k))

\* two blocks with different means and a trailing partial block
C2_Witness ==
    /\ Returned("downbin") /\ call.k >= 2 /\ ret.exc = ""
    /\ Len(ret.val) >= 2 /\ ret.val[1] # ret.val[2]
    /\ Len(call.arr) % call.k # 0

\* C6: the mask has the length of the frequency array; mask[i] is missing
\* exactly when mlo <= freq[i] <= mhi and is 1 otherwise; frequencies
\* [1.0, 1.2, 1.25, 1.3, 1.4] with range [1.2, 1.3] give [1, nan, nan, nan, 1].
C6_MaskConstruction ==
    Returned("mask_of") =>
        /\ Len(ret.val) = Len(call.arr)
        /\ \A i \in 1..Len(call.arr) :
              /\ isnan(ret.val[i]) <=> (fle(call.lo, call.arr[i]) /\ fle(call.arr[i], call.hi))
              /\ ~isnan(ret.val[i]) => ret.val[i] = Int2F(1)
        /\ (call.arr = Scenario_Mask /\ call.lo = Dec(12, 10) /\ call.hi = Dec(13, 10))
              => ret.val = <<Int2F(1), nan, nan, nan, Int2F(1)>>

\* the scenario has been computed
C6_Witness ==
    /\ Returned("mask_of")
    /\ call.arr = Scenario_Mask /\ call.lo = Dec(12, 10) /\ call.hi = Dec(13, 10)
    /\ isnan(ret.val[4]) /\ ret.val[5] = Int2F(1)

\* a channel nearer than (size-1)/2 positions to an end of the array
EdgeChannel(i, n, size) == i - 1 < size \div 2 \/ n - i < size \div 2

\* C10 as stated: at an edge channel the window positions outside the array
\* take the value of the nearest boundary sample.
C10_EdgeClamped ==
    (Returned("median_filter") /\ call.k \in {GBT_size, Eff_size}) =>
        \A i \in 1..Len(call.arr) :
            EdgeChannel(i, Len(call.arr), call.k)
                => ret.val[i] = RankOf(NearestWindow(call.arr, call.k, i - 1), call.k \div 2)

\* the array mirrored about its edges: position -1 reads sample 0, -2 reads
\* sample 1, ..., position n reads sample n-1, n+1 reads sample n-2, ...
RECURSIVE Mirror(_, _)
Mirror(p, n) ==
    IF p < 0 THEN Mirror(-p - 1, n)
    ELSE IF p >= n THEN Mirror(2 * n - 1 - p, n)
    ELSE p

MirrorWindow(input, size, i) ==
    [q \in 1..size |-> input[Mirror(i - (size \div 2) + (q - 1), Len(input)) + 1]]

\* C10 amended: at an edge channel the window positions outside the array
\* read the array mirrored about its edge (the edge sample repeated once),
\* not the clamped boundary sample.
C10_EdgeMirrored ==
    Returned("median_filter") =>
        /\ Len(ret.val) = Len(call.arr)
        /\ \A i \in 1..Len(call.arr) :
              EdgeChannel(i, Len(call.arr), call.k)
                  => ret.val[i] = RankOf(MirrorWindow(call.arr, call.k, i - 1), call.k \div 2)

\* an edge channel of a 31-wide filter whose value is not the one clamping
\* would give
C10_Witness ==
    /\ Returned("median_filter") /\ call.k = GBT_size
    /\ \E i \in 1..Len(call.arr) :
          /\ EdgeChannel(i, Len(call.arr), call.k)
          /\ ret.val[i] # RankOf(NearestWindow(call.arr, call.k, i - 1), call.k \div 2)

----------------------------------------------------------------------------
(* Load_Effelsberg_Example.ipynb and its earlier copy *)

MaxRawL == 12        \* most raw channels of an L band array
RawSpan == 3         \* L band arrays have MaxRawL - RawSpan .. MaxRawL raw channels, or none
MaxRawS == 9         \* most raw channels of an S band array (or one less, or none)

Notebooks == {"examples", "unnamed"}

downsample_default == 3     \* def downbin(arr, downsample = 3, shift = 0)

shift_default == 0

\* LBand_Freqs >= ... and LBand_Freqs <= ... of the copy's 'Reduce the Data' cell
Eff_LBand_Lower(nb) == IF nb = "examples" THEN Dec(128, 100) ELSE Dec(127, 100)

Eff_LBand_Upper(nb) == IF nb = "examples" THEN Dec(146, 100) ELSE Dec(145, 100)

\* SBand_Freqs >= 2.4 and SBand_Freqs <= 2.7
Eff_SBand_Lower == Dec(24, 10)

Eff_SBand_Upper == Dec(27, 10)

\* the frequency axis of a spectrometer: n channels df apart from f0 on
RawGrid(f0, df, n) == [i \in 1..n |-> fadd(f0, fmul(Int2F(i - 1), df))]

\* raw count patterns of n channels
RawCounts(pattern, n) ==
    [i \in 1..n |->
        Int2F(CASE pattern = "ramp"  -> i
                [] pattern = "spiky" -> (i * i) % 5
                [] pattern = "step"  -> IF i <= 6 THEN 0 ELSE 3
                [] OTHER             -> 1 + (i % 2))]

Shorter(n, by) == IF n - by < 0 THEN 0 ELSE n - by

\* the dictionary saved in LBand.npz: Freqs, On_Data and Off_Data, of equal
\* length in a well-formed archive and of lengths 3 apart in a damaged one
Eff_LBand_Archives ==
    {[Freqs    |-> RawGrid(grid[1], grid[2], n),
      On_Data  |-> RawCounts(pattern, Shorter(n, cut[1])),
      Off_Data |-> RawCounts("off", Shorter(n, cut[2]))] :
        grid \in {<<Dec(115, 100), Dec(3, 100)>>, <<Dec(116, 100), Dec(3, 100)>>,
                  <<Dec(124, 100), Dec(3, 100)>>, <<Dec(125, 100), Dec(3, 100)>>,
                  <<Dec(126, 100), Dec(2, 100)>>},
        n \in {0} \cup (MaxRawL - RawSpan)..MaxRawL,
        pattern \in {"ramp", "spiky", "step"},
        cut \in {<<0, 0>>, <<3, 0>>, <<-3, 0>>, <<0, 3>>}}

Eff_SBand_Archives ==
    {[Freqs    |-> RawGrid(f0, Dec(1, 10), n),
      On_Data  |-> RawCounts("ramp", n),
      Off_Data |-> RawCounts("off", n)] :
        f0 \in {Dec(19, 10), Dec(23, 10)},
        n \in {0} \cup (MaxRawS - 1)..MaxRawS}

\* Eff_Cal.npy: a two-row table, frequencies (increasing) and expected flux density
Eff_Cal_Tables ==
    {<< <<Int2F(1), Int2F(2), Int2F(3)>>, <<Int2F(300), Int2F(200), Int2F(150)>> >>,
     << <<Dec(13, 10), Dec(14, 10), Dec(25, 10)>>, <<Int2F(250), Int2F(240), Int2F(100)>> >>}

Eff_Archives ==
    {[LBand |-> l, SBand |-> s, Eff_Cal |-> c] :
        l \in Eff_LBand_Archives, s \in Eff_SBand_Archives, c \in Eff_Cal_Tables}

Eff_Names ==
    {"LBand_Freqs", "LBand_On_Data", "LBand_Off_Data", "SBand_Freqs", "SBand_On_Data",
     "SBand_Off_Data", "LBand_Locs", "SBand_Locs", "Cal_Freqs", "Cal_FD", "SBand_Cal",
     "LBand_Cal", "LBand_line_x", "LBand_line_y", "SBand_line_x", "SBand_line_y"}

Eff_Fresh == [v \in Eff_Names \cup {"exc"} |-> IF v = "exc" THEN "" ELSE <<>>]

Eff_Goto(ns, next) == IF ns.exc = "" THEN next ELSE "error"

\* name = downbin(data[key])
Stmt_Downbin(ns, name, raw) ==
    Assign(ns, name, downbin(raw, downsample_default, shift_default))

\* In [3]
Eff_LoadCell(ns, archives) ==
    LET s1 == Stmt_Downbin(ns, "LBand_Freqs", archives.LBand.Freqs)
        s2 == Stmt_Downbin(s1, "LBand_On_Data", archives.LBand.On_Data)
        s3 == Stmt_Downbin(s2, "LBand_Off_Data", archives.LBand.Off_Data)
        s4 == Stmt_Downbin(s3, "SBand_Freqs", archives.SBand.Freqs)
        s5 == Stmt_Downbin(s4, "SBand_On_Data", archives.SBand.On_Data)
        s6 == Stmt_Downbin(s5, "SBand_Off_Data", archives.SBand.Off_Data)
    IN  s6

\* name = name[locs]
Stmt_Take(ns, name, locs) == Assign(ns, name, take(ns[name], ns[locs]))

\* the reduce cell with LBand_On_Data indexed by the S band's locations
Eff_ReduceCell_WrongLocs(ns, nb) ==
    LET s1 == Stmt_Where(ns, "LBand_Locs", "LBand_Freqs", Eff_LBand_Lower(nb), Eff_LBand_Upper(nb))
        s2 == Stmt_Where(s1, "SBand_Locs", "SBand_Freqs", Eff_SBand_Lower, Eff_SBand_Upper)
        s3 == Stmt_Take(s2, "LBand_Freqs", "LBand_Locs")
        s4 == Stmt_Take(s3, "LBand_On_Data", "SBand_Locs")
        s5 == Stmt_Take(s4, "LBand_Off_Data", "LBand_Locs")
        s6 == Stmt_Take(s5, "SBand_Freqs", "SBand_Locs")
        s7 == Stmt_Take(s6, "SBand_On_Data", "SBand_Locs")
        s8 == Stmt_Take(s7, "SBand_Off_Data", "SBand_Locs")
    IN  s8

\* In [4]
Eff_ReduceCell(ns, nb) ==
    LET s1 == Stmt_Where(ns, "LBand_Locs", "LBand_Freqs", Eff_LBand_Lower(nb), Eff_LBand_Upper(nb))
        s2 == Stmt_Where(s1, "SBand_Locs", "SBand_Freqs", Eff_SBand_Lower, Eff_SBand_Upper)
        s3 == Stmt_Take(s2, "LBand_Freqs", "LBand_Locs")
        s4 == Stmt_Take(s3, "LBand_On_Data", "LBand_Locs")
        s5 == Stmt_Take(s4, "LBand_Off_Data", "LBand_Locs")
        s6 == Stmt_Take(s5, "SBand_Freqs", "SBand_Locs")
        s7 == Stmt_Take(s6, "SBand_On_Data", "SBand_Locs")
        s8 == Stmt_Take(s7, "SBand_Off_Data", "SBand_Locs")
    IN  s8

\* the calibration divided by the unsmoothed measurement
Eff_CalOf_Unsmoothed(expected, on_data) ==
    IF expected.exc # "" THEN expected
    ELSE adiv(expected.val, on_data)

\* expected / ndimage.median_filter(on_data, size = 201), where expected is
\* the outcome of np.interp
Eff_CalOf(expected, on_data) ==
    IF expected.exc # "" THEN expected
    ELSE adiv(expected.val, median_filter(on_data, Eff_size))

\* cal = np.interp(freqs, Cal_Freqs, Cal_FD) / ndimage.median_filter(on_data, size = 201)
Stmt_Cal(ns, cal, freqs, on_data) ==
    Assign(ns, cal, Eff_CalOf(interp(ns[freqs], ns.Cal_Freqs, ns.Cal_FD), ns[on_data]))

\* the calibration smoothed over every downbinned channel of the archive
\* and only then restricted to the band
Eff_CalOf_SmoothFirst(expected, raw_on, locs) ==
    LET smoothed == take(median_filter(downbin(raw_on, downsample_default, shift_default).val,
                                       Eff_size), locs)
    IN  IF expected.exc # "" THEN expected
        ELSE IF smoothed.exc # "" THEN smoothed
        ELSE adiv(expected.val, smoothed.val)

\* the calibrate cell smoothing before the reduce step's restriction
Eff_CalibrateCell_SmoothFirst(ns, archives) ==
    LET s1 == Assign(ns, "Cal_Freqs", Ok(archives.Eff_Cal[1]))
        s2 == Assign(s1, "Cal_FD", Ok(archives.Eff_Cal[2]))
        s3 == Assign(s2, "SBand_Cal",
                     Eff_CalOf_SmoothFirst(interp(s2.SBand_Freqs, s2.Cal_Freqs, s2.Cal_FD),
                                           archives.SBand.On_Data, s2.SBand_Locs))
        s4 == Assign(s3, "LBand_Cal",
                     Eff_CalOf_SmoothFirst(interp(s3.LBand_Freqs, s3.Cal_Freqs, s3.Cal_FD),
                                           archives.LBand.On_Data, s3.LBand_Locs))
    IN  s4

\* In [5]
Eff_CalibrateCell(ns, archives) ==
    LET s1 == Assign(ns, "Cal_Freqs", Ok(archives.Eff_Cal[1]))
        s2 == Assign(s1, "Cal_FD", Ok(archives.Eff_Cal[2]))
        s3 == Stmt_Cal(s2, "SBand_Cal", "SBand_Freqs", "SBand_On_Data")
        s4 == Stmt_Cal(s3, "LBand_Cal", "LBand_Freqs", "LBand_On_Data")
    IN  s4

\* In [6]
Eff_PlotCell(ns) ==
    LET s1 == Stmt_Plot(ns, "LBand_line_x", "LBand_line_y", "LBand_Freqs", "LBand_Cal", "LBand_On_Data")
        s2 == Stmt_Plot(s1, "SBand_line_x", "SBand_line_y", "SBand_Freqs", "SBand_Cal", "SBand_On_Data")
    IN  s2

Eff_Load ==
    /\ eff_pc = "load"
    /\ eff' = Eff_LoadCell(eff, disk)
    /\ eff_pc' = Eff_Goto(eff', "reduce")
    /\ UNCHANGED <<callVars, disk, gbtVars, notebook>>

Eff_Reduce ==
    /\ eff_pc = "reduce"
    /\ eff' = Eff_ReduceCell(eff, notebook)
    /\ eff_pc' = Eff_Goto(eff', "calibrate")
    /\ UNCHANGED <<callVars, disk, gbtVars, notebook>>

Eff_Calibrate ==
    /\ eff_pc = "calibrate"
    /\ eff' = Eff_CalibrateCell(eff, disk)
    /\ eff_pc' = Eff_Goto(eff', "plot")
    /\ UNCHANGED <<callVars, disk, gbtVars, notebook>>

Eff_Plot ==
    /\ eff_pc = "plot"
    /\ eff' = Eff_PlotCell(eff)
    /\ eff_pc' = Eff_Goto(eff', "done")
    /\ UNCHANGED <<callVars, disk, gbtVars, notebook>>

InitEff ==
    /\ disk \in Eff_Archives
    /\ notebook \in Notebooks
    /\ eff = Eff_Fresh
    /\ eff_pc = "load"
    /\ call = NoCall /\ ret = Pending /\ args = NoArgs /\ again = Pending
    /\ gbt = Idle /\ gbt_pc = "off"

NextEff == Eff_Load \/ Eff_Reduce \/ Eff_Calibrate \/ Eff_Plot

SpecEff == InitEff /\ [][NextEff]_vars

\* the reduce step of the notebooks together with calls of its array idiom
SpecReduce == (InitEff \/ InitCallsOf(RestrictCalls)) /\ [][NextEff \/ CallRestrict]_vars

\* both notebooks
SpecPipelines == (InitEff \/ InitGBT) /\ [][NextEff \/ NextGBT]_vars

----------------------------------------------------------------------------
(* Claims about the Effelsberg notebook *)

Eff_Reduced == eff_pc \in {"calibrate", "plot", "done"}

Eff_Calibrated == eff_pc \in {"plot", "done"}

\* the downbinned array of a raw array of the archive
Downbinned(raw) == downbin(raw, downsample_default, shift_default).val

InBand(freqs, lower, upper) == SelectSeq(freqs, LAMBDA f : fle(lower, f) /\ fle(f, upper))

RECURSIVE Pick(_, _, _)
Pick(seq, S, i) ==
    IF i > Len(seq) THEN <<>>
    ELSE (IF i \in S THEN <<seq[i]>> ELSE <<>>) \o Pick(seq, S, i + 1)

EqualRaw(raw) == Len(raw.Freqs) = Len(raw.On_Data) /\ Len(raw.Freqs) = Len(raw.Off_Data)

\* the three arrays of a band are the downbinned raw arrays at one common set
\* of block indices
AlignedBand(raw, freqs, on_data, off_data) ==
    /\ Len(freqs) = Len(on_data)
    /\ Len(freqs) = Len(off_data)
    /\ \E S \in SUBSET (1..Len(Downbinned(raw.Freqs))) :
          /\ freqs = Pick(Downbinned(raw.Freqs), S, 1)
          /\ on_data = Pick(Downbinned(raw.On_Data), S, 1)
          /\ off_data = Pick(Downbinned(raw.Off_Data), S, 1)

\* C4: for raw Freqs, On_Data and Off_Data of equal length, after every cell
\* from the load cell on the band's Freqs, On_Data and Off_Data have the same
\* length and index i of each is the mean of the same block of raw channels;
\* once the calibration array is defined it has that length too.
C4_Aligned ==
    eff_pc \in {"reduce", "calibrate", "plot", "done", "error"} =>
        /\ EqualRaw(disk.LBand) =>
              /\ AlignedBand(disk.LBand, eff.LBand_Freqs, eff.LBand_On_Data, eff.LBand_Off_Data)
              /\ Eff_Calibrated => Len(eff.LBand_Cal) = Len(eff.LBand_Freqs)
        /\ EqualRaw(disk.SBand) =>
              /\ AlignedBand(disk.SBand, eff.SBand_Freqs, eff.SBand_On_Data, eff.SBand_Off_Data)
              /\ Eff_Calibrated => Len(eff.SBand_Cal) = Len(eff.SBand_Freqs)

\* a complete run on a well-formed archive that kept two or more L band
\* channels and dropped the first one
C4_Witness ==
    /\ eff_pc = "done" /\ EqualRaw(disk.LBand)
    /\ Len(eff.LBand_Freqs) >= 2
    /\ Len(eff.LBand_Cal) = Len(eff.LBand_Freqs)
    /\ eff.LBand_Locs[1] > 1
    /\ eff.LBand_On_Data[1] # eff.LBand_On_Data[2]

\* expected[i] = calibration[i] * smoothed[i] at every channel
Consistent(expected, calibration, smoothed) ==
    \A i \in 1..Len(calibration) : expected[i] = fmul(calibration[i], smoothed[i])

\* the same at the channels whose smoothed value is not zero; where it is
\* zero the calibration is not finite and the product is nan
ConsistentNonZero(expected, calibration, smoothed) ==
    \A i \in 1..Len(calibration) :
        IF smoothed[i] # Int2F(0)
        THEN expected[i] = fmul(calibration[i], smoothed[i])
        ELSE ~isfinite(calibration[i]) /\ isnan(fmul(calibration[i], smoothed[i]))

Eff_Expected(freqs) == interp(freqs, eff.Cal_Freqs, eff.Cal_FD).val

\* C9 as stated (checked under SpecPipelines): for every channel i of a
\* calibration array, expected_flux[i] = calibration[i] * smoothed[i], the
\* channels with a zero smoothed value included.
C9_Consistent ==
    /\ Eff_Calibrated =>
          /\ Consistent(Eff_Expected(eff.LBand_Freqs), eff.LBand_Cal,
                        median_filter(eff.LBand_On_Data, Eff_size))
          /\ Consistent(Eff_Expected(eff.SBand_Freqs), eff.SBand_Cal,
                        median_filter(eff.SBand_On_Data, Eff_size))
    /\ gbt_pc \in {"reduce", "plot", "done"} =>
          Consistent(get_expected(gbt.Cal_Freqs), gbt.Cal_Func,
                     median_filter(gbt.Cal_AntennaTemp, GBT_size))

\* C9 amended: the equality holds at every channel whose smoothed value is
\* not zero; at a channel whose smoothed value is zero the calibration is
\* infinite or nan and calibration[i] * smoothed[i] is nan.
C9_ConsistentNonZero ==
    /\ Eff_Calibrated =>
          /\ ConsistentNonZero(Eff_Expected(eff.LBand_Freqs), eff.LBand_Cal,
                               median_filter(eff.LBand_On_Data, Eff_size))
          /\ ConsistentNonZero(Eff_Expected(eff.SBand_Freqs), eff.SBand_Cal,
                               median_filter(eff.SBand_On_Data, Eff_size))
    /\ gbt_pc \in {"reduce", "plot", "done"} =>
          ConsistentNonZero(get_expected(gbt.Cal_Freqs), gbt.Cal_Func,
                            median_filter(gbt.Cal_AntennaTemp, GBT_size))

\* an L band calibration with a channel whose smoothed value is zero and a
\* channel whose smoothed value is neither zero nor the measured value
C9_Witness ==
    /\ Eff_Calibrated
    /\ \E i \in 1..Len(eff.LBand_Cal) : \E j \in 1..Len(eff.LBand_Cal) :
          /\ median_filter(eff.LBand_On_Data, Eff_size)[i] = Int2F(0)
          /\ ~isfinite(eff.LBand_Cal[i])
          /\ isfinite(eff.LBand_Cal[j])
          /\ median_filter(eff.LBand_On_Data, Eff_size)[j] # eff.LBand_On_Data[j]

----------------------------------------------------------------------------
(* Further claims about downbin, checked under SpecCalls *)

\* C12: for every array, the empty one included, and every factor k <= 0,
\* downbin fails with an error and returns no array (ZeroDivisionError for
\* k = 0, numpy's ValueError of reshape for k < 0).
C12_NonPositiveFactor ==
    (Returned("downbin") /\ call.k <= 0) =>
        /\ ret.exc \in {"ZeroDivisionError", "ValueError"}
        /\ ret.val = <<>>

\* a negative factor on an array of two or more samples has raised
C12_Witness ==
    /\ Returned("downbin") /\ call.k < 0 /\ Len(call.arr) >= 2
    /\ ret.exc = "ValueError"

\* C13: the last N mod k samples never influence the result (any other
\* trailing samples, or none, give the same output) and no mean over a
\* partial block is emitted; [1,2,3,4,5,6,7] with factor 3 yields [2, 5].
C13_Truncates ==
    (Returned("downbin") /\ call.k >= 1) =>
        LET N    == Len(call.arr)
            kept == (N \div call.k) * call.k
        IN  /\ ret.exc = ""
            /\ Len(ret.val) * call.k = kept
            /\ ret = downbin(SubSeq(call.arr, 1, kept), call.k, call.shift)
            /\ \A tail \in [1..(N - kept) -> Samples] :
                  ret = downbin(SubSeq(call.arr, 1, kept) \o tail, call.k, call.shift)
            /\ (call.arr = Scenario_Downbin /\ call.k = 3)
                  => ret.val = <<Int2F(2), Int2F(5)>>

\* the scenario has been computed: seven samples, two means, 7 dropped
C13_Witness ==
    /\ Returned("downbin") /\ call.arr = Scenario_Downbin /\ call.k = 3
    /\ ret = Ok(<<Int2F(2), Int2F(5)>>)

\* C14: for N samples and a factor k > N (N = 0 with k >= 1 included)
\* downbin returns an array of length 0 and raises no error.
C14_FactorBeyondLength ==
    (Returned("downbin") /\ call.k > Len(call.arr)) => ret = Ok(<<>>)

\* two samples binned by a factor of three
C14_Witness ==
    /\ Returned("downbin") /\ Len(call.arr) = 2 /\ call.k = 3
    /\ ret = Ok(<<>>)

----------------------------------------------------------------------------
(* Further claims about the two notebooks, checked under SpecPipelines *)

\* C11: when the co-indexed arrays of one observation differ in length (raw
\* Freqs against On_Data or Off_Data of an Effelsberg band; Cal_Func against
\* M31_AntennaTemp for GBT) the run stops at an error: it never completes
\* with a line of calibrated flux densities drawn from them.
C11_MismatchFails ==
    /\ (eff_pc = "done" /\ eff.LBand_line_y # <<>>) => EqualRaw(disk.LBand)
    /\ (eff_pc = "done" /\ eff.SBand_line_y # <<>>) => EqualRaw(disk.SBand)
    /\ (gbt_pc = "done" /\ gbt.line_y # <<>>) => Len(gbt.Cal_Func) = Len(gbt.M31_AntennaTemp)

ZeroConfined(smoothed, calibration, flux, blanked) ==
    /\ \A i \in 1..Len(calibration) :
          smoothed[i] = Int2F(0) => ~isfinite(calibration[i])
    /\ \A i \in 1..Len(flux) :
          IF i <= Len(smoothed) /\ smoothed[i] = Int2F(0)
          THEN ~isfinite(flux[i])
          ELSE i \notin blanked => isfinite(flux[i])

\* C17: a channel whose median-smoothed measurement is zero raises no error
\* in the derivation and gets no default: its calibration value is infinite
\* or nan, and of the calibrated flux densities only that channel's is
\* affected.
C17_ZeroSmoothed ==
    /\ eff_pc # "off" => eff.exc \notin {"ZeroDivisionError", "FloatingPointError"}
    /\ gbt_pc # "off" => gbt.exc \notin {"ZeroDivisionError", "FloatingPointError"}
    /\ eff_pc = "done" =>
          /\ ZeroConfined(median_filter(eff.LBand_On_Data, Eff_size), eff.LBand_Cal,
                          eff.LBand_line_y, {})
          /\ ZeroConfined(median_filter(eff.SBand_On_Data, Eff_size), eff.SBand_Cal,
                          eff.SBand_line_y, {})
    /\ gbt_pc = "done" =>
          ZeroConfined(median_filter(gbt.Cal_AntennaTemp, GBT_size), gbt.Cal_Func,
                       gbt.line_y, {i \in 1..Len(gbt.mask) : isnan(gbt.mask[i])})

\* the calibration has one element per frequency, the expected flux density
\* at that frequency divided by the smoothed measurement of the same index
CalAligned(freqs, expected, smoothed, calibration) ==
    /\ Len(calibration) = Len(freqs)
    /\ \A i \in 1..Len(freqs) : calibration[i] = fdiv(expected[i], smoothed[i])

\* C18: the derived calibration array is index-aligned with the frequency
\* array it was derived on (Cal_Func with Cal_Freqs; Band_Cal with the
\* restricted Band_Freqs): same length, and element i is the expected flux
\* density at frequency[i] divided by the smoothed measurement at index i.
C18_CalAligned ==
    /\ Eff_Calibrated =>
          /\ CalAligned(eff.LBand_Freqs, Eff_Expected(eff.LBand_Freqs),
                        median_filter(eff.LBand_On_Data, Eff_size), eff.LBand_Cal)
          /\ CalAligned(eff.SBand_Freqs, Eff_Expected(eff.SBand_Freqs),
                        median_filter(eff.SBand_On_Data, Eff_size), eff.SBand_Cal)
    /\ gbt_pc \in {"reduce", "plot", "done"} =>
          CalAligned(gbt.Cal_Freqs, get_expected(gbt.Cal_Freqs),
                     median_filter(gbt.Cal_AntennaTemp, GBT_size), gbt.Cal_Func)

\* an L band calibration with two finite values derived from different
\* expected flux densities and different smoothed measurements
C18_Witness ==
    /\ Eff_Calibrated
    /\ \E i \in 1..Len(eff.LBand_Cal) : \E j \in 1..Len(eff.LBand_Cal) :
          /\ i < j
          /\ isfinite(eff.LBand_Cal[i]) /\ isfinite(eff.LBand_Cal[j])
          /\ Eff_Expected(eff.LBand_Freqs)[i] # Eff_Expected(eff.LBand_Freqs)[j]
          /\ median_filter(eff.LBand_On_Data, Eff_size)[i]
                # median_filter(eff.LBand_On_Data, Eff_size)[j]

----------------------------------------------------------------------------
(* Further claims about the reduce step, checked under SpecReduce *)

\* C15: when no channel of the frequency array lies in [lower, upper], the
\* restriction raises no error and Freqs, On_Data and Off_Data of the band
\* all become empty arrays.
C15_EmptyRestriction ==
    /\ (Returned("restrict") /\ where_range(call.arr, call.lo, call.hi) = <<>>)
          => ret = Ok(<<>>)
    /\ Eff_Reduced =>
          /\ eff.exc = ""
          /\ InBand(Downbinned(disk.LBand.Freqs), Eff_LBand_Lower(notebook), Eff_LBand_Upper(notebook)) = <<>>
                => /\ eff.LBand_Freqs = <<>>
                   /\ eff.LBand_On_Data = <<>>
                   /\ eff.LBand_Off_Data = <<>>
          /\ InBand(Downbinned(disk.SBand.Freqs), Eff_SBand_Lower, Eff_SBand_Upper) = <<>>
                => /\ eff.SBand_Freqs = <<>>
                   /\ eff.SBand_On_Data = <<>>
                   /\ eff.SBand_Off_Data = <<>>
    /\ (eff_pc = "error" /\ eff.LBand_Locs = <<>> /\ eff.SBand_Locs = <<>>) => eff.exc # "IndexError"

\* the S band has downbinned channels, none of them in 2.4 - 2.7 GHz, and
\* the reduce cell has left its three arrays empty
C15_Witness ==
    /\ eff_pc = "calibrate"
    /\ Len(Downbinned(disk.SBand.Freqs)) >= 2
    /\ Len(Downbinned(disk.SBand.On_Data)) >= 2
    /\ eff.SBand_Locs = <<>>
    /\ eff.SBand_Freqs = <<>> /\ eff.SBand_On_Data = <<>> /\ eff.SBand_Off_Data = <<>>

----------------------------------------------------------------------------
(* Every operation of the pipelines called twice on the caller's arrays *)

\* frequencies and measurements handed to the calibration derivations
CalFuncCalls ==
    {[NoCall EXCEPT !.fn = "Cal_Func", !.arr = f, !.aux = t] :
        f \in IncSeqs(GBT_Cal_FreqSet, MaxCalChan), t \in SeqsUpTo(GBT_TempSet, MaxCalChan)}

BandCalCalls ==
    {[fn |-> "Band_Cal", arr |-> f, aux |-> t, tbl |-> c,
      lo |-> nan, hi |-> nan, k |-> 0, shift |-> 0] :
        f \in IncSeqs({Dec(13, 10), Dec(135, 100), Dec(25, 10)}, MaxCalChan),
        t \in SeqsUpTo(GBT_TempSet, MaxCalChan),
        c \in Eff_Cal_Tables}

\* a calibration and the measurement it is applied to
ApplyCalls ==
    {[NoCall EXCEPT !.fn = "apply", !.arr = c, !.aux = t] :
        c \in SeqsUpTo({Int2F(0), Int2F(2), F(1, 0)}, MaxCalChan),
        t \in SeqsUpTo(GBT_TempSet, MaxCalChan)}

\* the value of the call c
Invoke(c) ==
    CASE c.fn = "downbin"       -> downbin(c.arr, c.k, c.shift)
      [] c.fn = "restrict"      -> restrict(c.arr, c.aux, c.lo, c.hi)
      [] c.fn = "mask_of"       -> Ok(mask_of(c.arr, c.lo, c.hi))
      [] c.fn = "median_filter" -> Ok(median_filter(c.arr, c.k))
      [] c.fn = "Cal_Func"      -> GBT_CalOf(c.arr, c.aux)
      [] c.fn = "Band_Cal"      -> Eff_CalOf(interp(c.arr, c.tbl[1], c.tbl[2]), c.aux)
      [] c.fn = "apply"         -> amul(c.arr, c.aux)

\* Cal_Func = load.get_expected(Cal_Freqs, '3C48') / ndimage.median_filter(...)
CallCalFunc ==
    /\ call.fn = "Cal_Func" /\ ret = Pending
    /\ ret' = GBT_CalOf(call.arr, call.aux)
    /\ UNCHANGED <<call, args, again, disk, gbtVars, effVars>>

\* LBand_Cal = np.interp(LBand_Freqs, Cal_Freqs, Cal_FD) / ndimage.median_filter(...)
CallBandCal ==
    /\ call.fn = "Band_Cal" /\ ret = Pending
    /\ ret' = Eff_CalOf(interp(call.arr, call.tbl[1], call.tbl[2]), call.aux)
    /\ UNCHANGED <<call, args, again, disk, gbtVars, effVars>>

\* LBand_Cal * LBand_On_Data
CallApply ==
    /\ call.fn = "apply" /\ ret = Pending
    /\ ret' = amul(call.arr, call.aux)
    /\ UNCHANGED <<call, args, again, disk, gbtVars, effVars>>

\* the same call once more, on the arrays as the first call left them
CallAgain ==
    /\ call.fn # "" /\ ret # Pending /\ again = Pending
    /\ again' = Invoke([call EXCEPT !.arr = args.arr, !.aux = args.aux])
    /\ UNCHANGED <<call, ret, args, disk, gbtVars, effVars>>

InitTwice ==
    InitCallsOf(DownbinCalls \cup RestrictCalls \cup MaskCalls \cup MedianCalls
                \cup CalFuncCalls \cup BandCalCalls \cup ApplyCalls)

NextTwice == NextCalls \/ CallCalFunc \/ CallBandCal \/ CallApply \/ CallAgain

SpecTwice == InitTwice /\ [][NextTwice]_vars

----------------------------------------------------------------------------
(* The operations and the GBT notebook together *)

SpecFrame == (InitCalls \/ InitGBT) /\ [][NextCalls \/ NextGBT]_vars

----------------------------------------------------------------------------
(* Claims about the order and the parameters of downbin, under SpecCalls *)

StrictlyIncreasing(a) == \A i \in 1..(Len(a) - 1) : flt(a[i], a[i + 1])

\* C27: for a strictly increasing input and k >= 1 the output of downbin is
\* strictly increasing and output j lies between the first and the last
\* sample of block j.
C27_OrderPreserved ==
    (Returned("downbin") /\ call.k >= 1 /\ StrictlyIncreasing(call.arr)) =>
        /\ ret.exc = ""
        /\ StrictlyIncreasing(ret.val)
        /\ \A j \in 1..Len(ret.val) :
              /\ fle(call.arr[(j - 1) * call.k + 1], ret.val[j])
              /\ fle(ret.val[j], call.arr[j * call.k])

\* the seven-sample axis binned by two: three means, each strictly inside
\* its block
C27_Witness ==
    /\ Returned("downbin") /\ call.arr = Scenario_Downbin /\ call.k = 2
    /\ Len(ret.val) = 3
    /\ StrictlyIncreasing(ret.val)
    /\ flt(call.arr[3], ret.val[2]) /\ flt(ret.val[2], call.arr[4])

\* C28: the result of downbin(arr, downsample, shift) does not depend on
\* shift: any other shift gives the same output, no block offset is applied.
C28_ShiftIgnored ==
    Returned("downbin") =>
        \A other \in {-1, 0, 1, 2} : downbin(call.arr, call.k, other) = ret

\* a call with shift = 1 whose first mean is that of the first two samples,
\* where the block one sample on has another mean
C28_Witness ==
    /\ Returned("downbin") /\ call.shift = 1 /\ call.k = 2 /\ Len(call.arr) >= 3
    /\ ret.exc = ""
    /\ fmul(ret.val[1], Int2F(2)) = fadd(call.arr[1], call.arr[2])
    /\ call.arr[1] # call.arr[3]

----------------------------------------------------------------------------
(* The median filter on arrays longer than its window *)

MaxInterior == 2     \* most channels a full window away from both ends

\* measured values of n channels without a trend
LongSamples(pattern, n) ==
    [i \in 1..n |-> Int2F(IF pattern = "squares" THEN (i * i) % 7 ELSE (3 * i) % 5)]

\* arrays of w, w + 1, ... samples for the two window widths of the notebooks
LongMedianCalls ==
    {[NoCall EXCEPT !.fn = "median_filter", !.arr = LongSamples(pattern, w + extra), !.k = w] :
        w \in {GBT_size, Eff_size},
        extra \in 0..(MaxInterior - 1),
        pattern \in {"squares", "threes"}}

SpecMedian == InitCallsOf(MedianCalls \cup LongMedianCalls) /\ [][CallMedian]_vars

\* a channel with (size - 1) / 2 samples on either side
InteriorChannel(i, n, size) == i - 1 >= size \div 2 /\ n - i >= size \div 2

\* C21 (checked under SpecMedian): the window widths 31 and 201 are odd;
\* for every channel i at least (w-1)/2 positions away from both ends the
\* smoothed value is the median of the w measured samples at positions
\* i-(w-1)/2 .. i+(w-1)/2; the smoothed array is as long as the measured one.
C21_InteriorMedian ==
    /\ GBT_size % 2 = 1 /\ Eff_size % 2 = 1
    /\ Returned("median_filter") =>
          /\ Len(ret.val) = Len(call.arr)
          /\ \A i \in 1..Len(call.arr) :
                InteriorChannel(i, Len(call.arr), call.k) =>
                    ret.val[i] = RankOf(SubSeq(call.arr, i - (call.k \div 2), i + (call.k \div 2)),
                                        call.k \div 2)

\* a 201-wide filter has smoothed an interior channel to a value that is
\* neither the measured one nor the smallest of its window
C21_Witness ==
    /\ Returned("median_filter") /\ call.k = Eff_size
    /\ \E i \in 1..Len(call.arr) :
          /\ InteriorChannel(i, Len(call.arr), call.k)
          /\ ret.val[i] # call.arr[i]
          /\ ret.val[i] # Int2F(0)

----------------------------------------------------------------------------
(* The order of the Effelsberg steps: load and downbin, reduce, calibrate *)

\* the indices of the downbinned channels of raw frequencies in [lower, upper]
BandIndices(raw_freqs, lower, upper) ==
    LET freqs == Downbinned(raw_freqs)
    IN  {i \in 1..Len(freqs) : fle(lower, freqs[i]) /\ fle(freqs[i], upper)}

\* the calibration computed from the in-band channels alone: the expected
\* flux at the in-band frequencies over the median filter of the in-band
\* ON samples
InBandCal(raw, lower, upper) ==
    LET S == BandIndices(raw.Freqs, lower, upper)
    IN  Eff_CalOf(interp(Pick(Downbinned(raw.Freqs), S, 1), disk.Eff_Cal[1], disk.Eff_Cal[2]),
                  Pick(Downbinned(raw.On_Data), S, 1)).val

\* the calibration obtained by smoothing every downbinned channel first
SmoothFirstCal(raw, freqs, locs) ==
    Eff_CalOf_SmoothFirst(interp(freqs, disk.Eff_Cal[1], disk.Eff_Cal[2]), raw.On_Data, locs).val

\* C22 (checked under SpecEff): the cells run in the order load and downbin,
\* reduce, calibrate, so the median filter is applied to the restricted
\* On_Data: each band's calibration array is determined by the in-band
\* channels alone (no sample of a channel outside [lower, upper] enters any
\* calibration value) and has one value per in-band channel.
C22_SmoothedAfterRestriction ==
    /\ eff_pc = "calibrate" =>
          /\ eff.LBand_Cal = <<>> /\ eff.SBand_Cal = <<>>
          /\ eff.LBand_Freqs = Pick(Downbinned(disk.LBand.Freqs),
                                    BandIndices(disk.LBand.Freqs, Eff_LBand_Lower(notebook),
                                                Eff_LBand_Upper(notebook)), 1)
    /\ Eff_Calibrated =>
          /\ eff.LBand_Cal = InBandCal(disk.LBand, Eff_LBand_Lower(notebook), Eff_LBand_Upper(notebook))
          /\ eff.SBand_Cal = InBandCal(disk.SBand, Eff_SBand_Lower, Eff_SBand_Upper)
          /\ Len(eff.LBand_Cal) = Cardinality(BandIndices(disk.LBand.Freqs, Eff_LBand_Lower(notebook),
                                                          Eff_LBand_Upper(notebook)))
          /\ Len(eff.SBand_Cal) = Cardinality(BandIndices(disk.SBand.Freqs, Eff_SBand_Lower,
                                                          Eff_SBand_Upper))

\* a calibrated run whose L band dropped channels on which the smoothing
\* would have depended: smoothing before the restriction gives another array
C22_Witness ==
    /\ Eff_Calibrated
    /\ Len(eff.LBand_Cal) >= 2
    /\ Len(eff.LBand_Cal) < Len(Downbinned(disk.LBand.Freqs))
    /\ \E i \in 1..Len(eff.LBand_Cal) :
          /\ isfinite(eff.LBand_Cal[i])
          /\ isfinite(SmoothFirstCal(disk.LBand, eff.LBand_Freqs, eff.LBand_Locs)[i])
          /\ eff.LBand_Cal[i] # SmoothFirstCal(disk.LBand, eff.LBand_Freqs, eff.LBand_Locs)[i]

----------------------------------------------------------------------------
(* The two copies of the Effelsberg notebook side by side *)

\* Run All on a fresh kernel: the cells In [3] .. In [6] in order; the
\* statements after a raised exception are skipped
Eff_RunAll(archives, nb) ==
    LET loaded     == Eff_LoadCell(Eff_Fresh, archives)
        reduced    == Eff_ReduceCell(loaded, nb)
        calibrated == Eff_CalibrateCell(reduced, archives)
    IN  Eff_PlotCell(calibrated)

OtherCopy(nb) == IF nb = "examples" THEN "unnamed" ELSE "examples"

\* C23 as stated (checked under SpecEff): run on the same raw arrays, the
\* notebook of src/examples and the copy in src/unnamed/part_000 select the
\* same L band and S band channels in the reduce step and produce the same
\* calibrated output; stated for well-formed archives on which this copy
\* has run to its end.
C23_CopiesAgree ==
    (eff_pc = "done" /\ EqualRaw(disk.LBand) /\ EqualRaw(disk.SBand)) =>
        LET other == Eff_RunAll(disk, OtherCopy(notebook))
        IN  /\ other.exc = ""
            /\ eff.LBand_Locs = other.LBand_Locs
            /\ eff.SBand_Locs = other.SBand_Locs
            /\ eff.LBand_line_x = other.LBand_line_x
            /\ eff.LBand_line_y = other.LBand_line_y
            /\ eff.SBand_line_x = other.SBand_line_x
            /\ eff.SBand_line_y = other.SBand_line_y

----------------------------------------------------------------------------
(* Re-executing cells of the Effelsberg notebook in a kernel that has run *)
(* it once: eff_pc keeps the history, "done" followed by one letter per   *)
(* cell executed again (R the reduce cell, C the calibrate cell)          *)

MaxReruns == 2       \* most cells executed again

\* the notebook has run to its end and no later execution has failed
Eff_Ran == eff_pc \notin {"off", "load", "reduce", "calibrate", "plot", "error", "rerun error"}

\* In [4] executed again in the same kernel
Eff_RerunReduce ==
    /\ Eff_Ran
    /\ Len(eff_pc) < Len("done") + MaxReruns
    /\ eff' = Eff_ReduceCell(eff, notebook)
    /\ eff_pc' = IF eff'.exc = "" THEN eff_pc \o "R" ELSE "rerun error"
    /\ UNCHANGED <<callVars, disk, gbtVars, notebook>>

\* In [5] executed again in the same kernel
Eff_RerunCalibrate ==
    /\ Eff_Ran
    /\ Len(eff_pc) < Len("done") + MaxReruns
    /\ eff' = Eff_CalibrateCell(eff, disk)
    /\ eff_pc' = IF eff'.exc = "" THEN eff_pc \o "C" ELSE "rerun error"
    /\ UNCHANGED <<callVars, disk, gbtVars, notebook>>

NextRerun == NextEff \/ Eff_RerunReduce \/ Eff_RerunCalibrate

SpecRerun == InitEff /\ [][NextRerun]_vars

\* the arrays of a band are the in-band channels of the downbinned archive
\* and their calibration, all of one length, and the plotted line is
\* Band_Cal * Band_On_Data
AsFirstRun(raw, lower, upper, freqs, on_data, off_data, calibration, line_y) ==
    LET S == BandIndices(raw.Freqs, lower, upper)
    IN  /\ freqs = Pick(Downbinned(raw.Freqs), S, 1)
        /\ on_data = Pick(Downbinned(raw.On_Data), S, 1)
        /\ off_data = Pick(Downbinned(raw.Off_Data), S, 1)
        /\ calibration = InBandCal(raw, lower, upper)
        /\ Len(on_data) = Len(freqs)
        /\ Len(off_data) = Len(freqs)
        /\ Len(calibration) = Len(freqs)
        /\ amul(calibration, on_data) = Ok(line_y)

\* C24 (checked under SpecRerun): once the notebook has run in order,
\* executing the reduce cell and the calibrate cell again, any number of
\* times in any order, raises nothing and leaves Band_Freqs, Band_On_Data,
\* Band_Off_Data and Band_Cal of both bands what they are right after the
\* first run (a function of the archive alone); the four arrays of a band
\* keep one common length, and Band_Cal * Band_On_Data stays the line the
\* first run plotted.
C24_RerunIdempotent ==
    /\ eff_pc # "rerun error"
    /\ Eff_Ran =>
          /\ AsFirstRun(disk.LBand, Eff_LBand_Lower(notebook), Eff_LBand_Upper(notebook),
                        eff.LBand_Freqs, eff.LBand_On_Data, eff.LBand_Off_Data, eff.LBand_Cal,
                        eff.LBand_line_y)
          /\ AsFirstRun(disk.SBand, Eff_SBand_Lower, Eff_SBand_Upper,
                        eff.SBand_Freqs, eff.SBand_On_Data, eff.SBand_Off_Data, eff.SBand_Cal,
                        eff.SBand_line_y)

\* the calibrate cell and then the reduce cell were executed again after a
\* first run that had dropped the first downbinned L band channel: the
\* index array now numbers the kept channels from the start, the arrays
\* are as they were
C24_Witness ==
    /\ eff_pc = "doneCR"
    /\ Len(eff.LBand_Freqs) >= 2
    /\ eff.LBand_Locs[1] = 1
    /\ 1 \notin BandIndices(disk.LBand.Freqs, Eff_LBand_Lower(notebook), Eff_LBand_Upper(notebook))
    /\ eff.LBand_On_Data[1] # eff.LBand_On_Data[2]
    /\ isfinite(eff.LBand_Cal[1])
    /\ Len(eff.SBand_Freqs) >= 2

----------------------------------------------------------------------------
(* np.interp(Band_Freqs, Cal_Freqs, Cal_FD) called on its own *)

MaxTargets == 2      \* most target frequencies of one call

\* target frequencies below, at, between and above the points of the tables
InterpTargets ==
    {Dec(1, 2), Int2F(1), Dec(13, 10), Dec(135, 100), Dec(14, 10), Dec(3, 2), Int2F(2),
     Dec(25, 10), Int2F(3), Int2F(4)}

InterpCalls ==
    {[fn |-> "interp", arr |-> x, aux |-> <<>>, tbl |-> c,
      lo |-> nan, hi |-> nan, k |-> 0, shift |-> 0] :
        x \in SeqsUpTo(InterpTargets, MaxTargets), c \in Eff_Cal_Tables}

CallInterp ==
    /\ call.fn = "interp" /\ ret = Pending
    /\ ret' = interp(call.arr, call.tbl[1], call.tbl[2])
    /\ UNCHANGED <<call, args, again, disk, gbtVars, effVars>>

SpecInterp == InitCallsOf(InterpCalls) /\ [][CallInterp]_vars

\* y lies on the straight line through (x0, y0) and (x1, y1) at x, and
\* between y0 and y1
OnSegment(x, y, x0, y0, x1, y1) ==
    /\ fmul(fsub(y, y0), fsub(x1, x0)) = fmul(fsub(y1, y0), fsub(x, x0))
    /\ \/ fle(y0, y) /\ fle(y, y1)
       \/ fle(y1, y) /\ fle(y, y0)

\* C25 (checked under SpecInterp): for an increasing table (Cal_Freqs,
\* Cal_FD) the expected flux at a target frequency f is the linear
\* interpolation between the two neighbouring table points when f is inside
\* the table range, Cal_FD at the table point when f coincides with one, the
\* first (last) table value when f is below (above) the range; it is always
\* a finite value within the range of the table's values: never missing,
\* never extrapolated.
C25_Interpolated ==
    Returned("interp") =>
        LET xp == call.tbl[1]
            fp == call.tbl[2]
            n  == Len(call.tbl[1])
        IN  /\ ret.exc = ""
            /\ Len(ret.val) = Len(call.arr)
            /\ \A i \in 1..Len(call.arr) :
                  /\ isfinite(ret.val[i])
                  /\ \E j \in 1..n : fle(fp[j], ret.val[i])
                  /\ \E j \in 1..n : fle(ret.val[i], fp[j])
                  /\ fle(call.arr[i], xp[1]) => ret.val[i] = fp[1]
                  /\ fle(xp[n], call.arr[i]) => ret.val[i] = fp[n]
                  /\ \A j \in 1..n : call.arr[i] = xp[j] => ret.val[i] = fp[j]
                  /\ \A j \in 1..(n - 1) :
                        (fle(xp[j], call.arr[i]) /\ fle(call.arr[i], xp[j + 1])) =>
                            OnSegment(call.arr[i], ret.val[i], xp[j], fp[j], xp[j + 1], fp[j + 1])

\* a call with one target below the table and one strictly between two of
\* its points, whose value is none of the table's
C25_Witness ==
    /\ Returned("interp")
    /\ Len(call.arr) = 2
    /\ flt(call.arr[1], call.tbl[1][1])
    /\ ret.val[1] = call.tbl[2][1]
    /\ flt(call.tbl[1][1], call.arr[2]) /\ flt(call.arr[2], call.tbl[1][2])
    /\ \A j \in 1..Len(call.tbl[2]) : ret.val[2] # call.tbl[2][j]

----------------------------------------------------------------------------
(* The rounding of Band_Cal * Band_On_Data: numpy holds the arrays as      *)
(* float64, so the quotient of In [5] and the product of In [6] are each   *)
(* rounded to the nearest binary64 value, ties to even. A positive value   *)
(* is kept as [m, e]: m the Precision bits of the significand, leading bit *)
(* first, and the value is 0.m * 2^e. Channels hold whole numbers here.    *)

MaxCount == 12       \* largest ON value and largest smoothed value of a channel

Precision == 53      \* bits in the significand of a float64

\* the binary digits of a natural number, leading digit first
RECURSIVE IntBits(_)
IntBits(n) == IF n = 0 THEN <<>> ELSE IntBits(n \div 2) \o <<n % 2>>

\* the float64 that holds the whole number n >= 1 (all of them are exact here)
float64(n) ==
    [m |-> [i \in 1..Precision |-> IF i <= Len(IntBits(n)) THEN IntBits(n)[i] ELSE 0],
     e |-> Len(IntBits(n))]

\* the next float64 above x
nextafter_up(x) ==
    IF \A i \in 1..Precision : x.m[i] = 1
    THEN [m |-> [i \in 1..Precision |-> IF i = 1 THEN 1 ELSE 0], e |-> x.e + 1]
    ELSE LET j == CHOOSE i \in 1..Precision :
                      x.m[i] = 0 /\ \A q \in (i + 1)..Precision : x.m[q] = 1
         IN  [m |-> [i \in 1..Precision |-> IF i < j THEN x.m[i] ELSE IF i = j THEN 1 ELSE 0],
              e |-> x.e]

\* the next float64 below x
nextafter_down(x) ==
    IF \A i \in 2..Precision : x.m[i] = 0
    THEN [m |-> [i \in 1..Precision |-> 1], e |-> x.e - 1]
    ELSE LET j == CHOOSE i \in 2..Precision :
                      x.m[i] = 1 /\ \A q \in (i + 1)..Precision : x.m[q] = 0
         IN  [m |-> [i \in 1..Precision |-> IF i < j THEN x.m[i] ELSE IF i = j THEN 0 ELSE 1],
              e |-> x.e]

\* round toward zero
round_toward_zero(kept, guard, sticky, e) == [m |-> kept, e |-> e]

\* round to nearest, ties to even: kept are the first Precision bits, guard
\* the bit after them, sticky whether anything non-zero follows the guard
round_nearest_even(kept, guard, sticky, e) ==
    IF guard = 1 /\ (sticky \/ kept[Precision] = 1)
    THEN nextafter_up([m |-> kept, e |-> e])
    ELSE [m |-> kept, e |-> e]

\* the exponent k with b * 2^(k-1) <= a < b * 2^k
RECURSIVE ExponentOf(_, _)
ExponentOf(a, b) ==
    IF a >= b THEN 1 + ExponentOf(a, 2 * b)
    ELSE IF 2 * a >= b THEN 0
    ELSE ExponentOf(2 * a, b) - 1

\* the width binary digits of n < 2^width, leading digit first
ToBits(n, width) == [i \in 1..width |-> (n \div 2^(width - i)) % 2]

\* the number whose binary digits are bits[from..to]
RECURSIVE FromBits(_, _, _)
FromBits(bits, from, to) ==
    IF from > to THEN 0 ELSE 2 * FromBits(bits, from, to - 1) + bits[to]

\* the next width bits of r / d after the binary point, as a number, and
\* the remainder left after them (r < d < 2^16)
Quot(r, d, width) == (r * 2^width) \div d

Rem(r, d, width) == (r * 2^width) % d

\* a / b for whole numbers a, b >= 1 held as float64: Precision + 1 bits of
\* the quotient are worked out 14 at a time and rounded
div64(a, b) ==
    LET k    == ExponentOf(a, b)
        n    == IF k >= 0 THEN a ELSE a * 2^(0 - k)
        d    == IF k >= 0 THEN b * 2^k ELSE b
        r1   == Rem(n, d, 14)
        r2   == Rem(r1, d, 14)
        r3   == Rem(r2, d, 14)
        bits == ToBits(Quot(n, d, 14), 14) \o ToBits(Quot(r1, d, 14), 14)
                  \o ToBits(Quot(r2, d, 14), 14) \o ToBits(Quot(r3, d, 12), 12)
    IN  round_nearest_even(SubSeq(bits, 1, Precision), bits[Precision + 1],
                           Rem(r3, d, 12) # 0, k)

\* x * c for a float64 x and a whole number c >= 1 held as float64: the
\* significand is multiplied 14 bits at a time from the right, and the
\* product rounded
mul64(x, c) ==
    LET p4      == FromBits(x.m, 40, 53) * c
        p3      == FromBits(x.m, 26, 39) * c + p4 \div 2^14
        p2      == FromBits(x.m, 12, 25) * c + p3 \div 2^14
        p1      == FromBits(x.m, 1, 11) * c + p2 \div 2^14
        product == IntBits(p1) \o ToBits(p2 % 2^14, 14) \o ToBits(p3 % 2^14, 14)
                     \o ToBits(p4 % 2^14, 14)
        extra   == Len(product) - Precision
    IN  round_nearest_even(SubSeq(product, 1, Precision),
                           IF extra >= 1 THEN product[Precision + 1] ELSE 0,
                           \E i \in (Precision + 2)..Len(product) : product[i] = 1,
                           x.e + extra)

\* one channel of Band_Cal * Band_On_Data, with Band_Cal = expected / smoothed
flux64(expected, smoothed, on_data) == mul64(div64(expected, smoothed), on_data)

\* expected flux densities of the calibration tables, smoothed and measured
\* ON values of a channel
FluxCalls ==
    {[fn |-> "flux", arr |-> <<>>, aux |-> <<>>, expected |-> x, smoothed |-> sm, on_data |-> on,
      lo |-> nan, hi |-> nan, k |-> 0, shift |-> 0] :
        x \in {100, 150, 200, 240, 250, 300}, sm \in 1..MaxCount, on \in 1..MaxCount}

CallFlux ==
    /\ call.fn = "flux" /\ ret = Pending
    /\ ret' = Ok(flux64(call.expected, call.smoothed, call.on_data))
    /\ UNCHANGED <<call, args, again, disk, gbtVars, effVars>>

\* the Effelsberg notebook together with the rounded arithmetic of one channel
SpecFlux == (InitEff \/ InitCallsOf(FluxCalls)) /\ [][NextEff \/ CallFlux]_vars

\* every point of a plotted line is expected * ON / smoothed of its channel,
\* smoothed being the median filter of the band's own ON data
FluxOf(freqs, on_data, line_y) ==
    \A i \in 1..Len(line_y) :
        line_y[i] = fdiv(fmul(Eff_Expected(freqs)[i], on_data[i]),
                         median_filter(on_data, Eff_size)[i])

\* C26 as stated (checked under SpecFlux): the plotted flux density of
\* channel i is expected_flux(Band_Freqs[i]) * Band_On_Data[i] / smoothed[i],
\* and at a channel whose ON value equals its non-zero window median the
\* output is the expected flux density exactly.
C26_ExactAtMedian ==
    /\ eff_pc = "done" =>
          /\ FluxOf(eff.LBand_Freqs, eff.LBand_On_Data, eff.LBand_line_y)
          /\ FluxOf(eff.SBand_Freqs, eff.SBand_On_Data, eff.SBand_line_y)
    /\ (Returned("flux") /\ call.on_data = call.smoothed) =>
          ret.val = float64(call.expected)

\* C26 amended: the first part as stated (on exact values); at a channel
\* whose ON value equals its non-zero window median the float64 output is
\* the expected flux density or one of its two float64 neighbours.
C26_WithinRounding ==
    /\ eff_pc = "done" =>
          /\ FluxOf(eff.LBand_Freqs, eff.LBand_On_Data, eff.LBand_line_y)
          /\ FluxOf(eff.SBand_Freqs, eff.SBand_On_Data, eff.SBand_line_y)
    /\ (Returned("flux") /\ call.on_data = call.smoothed) =>
          ret.val \in {float64(call.expected), nextafter_up(float64(call.expected)),
                       nextafter_down(float64(call.expected))}

\* a channel whose ON value is its median and whose output is not the
\* expected flux density
C26_Witness ==
    /\ Returned("flux")
    /\ call.on_data = call.smoothed
    /\ ret.val # float64(call.expected)

============================================================================
